---- MODULE Spec2Model ----
(***************************************************************************)
(* Model of the NANIDAO delegate cloud function (src/index.js): the "vote" *)
(* HTTP handler, the proposal query, the oracle retry protocol, the        *)
(* signing path and the outcome store.                                     *)
(*                                                                         *)
(* Strings whose casing the code manipulates (addresses, hashes, chain     *)
(* names) are sequences of one-character strings, so that toLowerCase is   *)
(* computed and not assumed.  JavaScript values that the code tests for    *)
(* truthiness are tagged records.                                          *)
(***************************************************************************)
EXTENDS Integers, Sequences, FiniteSets, TLC

VARIABLES
    proposals,   \* table "proposals": a set of rows (written upstream, read-only here)
    signatures,  \* table "signatures": the rows in insertion order
    now,         \* the database clock NOW(), in hours
    kms,         \* the address of the account the credentials resolve to
    baseline,    \* per invocation: the number of rows in the store when it began
    pc,          \* per invocation slot: where the handler is suspended
    tries,       \* getRecentProposals: the loop variable i
    waits,       \* getRecentProposals: the setTimeout delays awaited so far (ms)
    backlog,     \* handler: const proposals (the fetched rows)
    account,     \* handler: const account (its address), or NoAccount
    idx,         \* handler: position of the for-of loop (1-based, 0 before it)
    steps,       \* the external calls made for the current proposal, in order
    text,        \* makeRequest: const text (the latest response body), or NoText
    decision,    \* handler: the value getNaniVote returned, or Undefined
    signing,     \* signProposal: the argument of account.signTypedData, or NoCall
    sig,         \* handler: const signature, or the empty string
    results,     \* handler: const results
    response     \* what res.status(..).json(..) sent, or NoResponse

vars == << proposals, signatures, now, kms, baseline, pc, tries,
           waits, backlog, account, idx, steps, text, decision, signing, sig,
           results, response >>

(***************************************************************************)
(* Bounds of the model.                                                    *)
(***************************************************************************)
MaxBacklog == 2     \* rows of the proposals table
MaxNow == 25        \* last hour the database clock reaches
ConcBacklog == 1    \* rows of the proposals table when invocations overlap

Runs == {1, 2}      \* the invocations of the handler: the first and a later one

(***************************************************************************)
(* Strings as character sequences; String.prototype.toLowerCase.           *)
(***************************************************************************)
LowerOf ==
    [ A |-> "a", B |-> "b", C |-> "c", D |-> "d", E |-> "e", F |-> "f",
      G |-> "g", H |-> "h", I |-> "i", J |-> "j", K |-> "k", L |-> "l",
      M |-> "m", N |-> "n", O |-> "o", P |-> "p", Q |-> "q", R |-> "r",
      S |-> "s", T |-> "t", U |-> "u", V |-> "v", W |-> "w", X |-> "x",
      Y |-> "y", Z |-> "z" ]

toLowerCase(s) ==
    [ i \in DOMAIN s |-> IF s[i] \in DOMAIN LowerOf THEN LowerOf[s[i]] ELSE s[i] ]

(***************************************************************************)
(* JavaScript values and their truthiness.                                 *)
(***************************************************************************)
Undefined == [t |-> "undefined"]
Null == [t |-> "null"]
Bool(b) == [t |-> "bool", b |-> b]
Num(n) == [t |-> "num", n |-> n]
Str(s) == [t |-> "str", s |-> s]
Obj(vote, reason) == [t |-> "obj", vote |-> vote, reason |-> reason]
\* A string value kept as the sequence of its characters (hex data, addresses).
Hex(h) == [t |-> "hex", h |-> h]

\* ToBoolean of the language: what `if (x)` and Boolean(x) test.
Truthy(x) ==
    CASE x.t = "undefined" -> FALSE
      [] x.t = "null" -> FALSE
      [] x.t = "bool" -> x.b
      [] x.t = "num" -> x.n # 0
      [] x.t = "str" -> x.s # ""
      [] x.t = "hex" -> x.h # << >>
      [] OTHER -> TRUE

\* a || b
Or(a, b) == IF Truthy(a) THEN a ELSE b

\* Property read `x.f` as the destructuring `const { vote, reason } = x` does it:
\* a primitive has neither property.
Field(x, f) ==
    IF x.t = "obj" THEN (IF f = "vote" THEN x.vote ELSE x.reason) ELSE Undefined

(***************************************************************************)
(* Program constants.                                                      *)
(***************************************************************************)
TARGET_SENDER ==
    << "0","x","0","0","0","0","0","0","0","0","0","0","0","0","1","d","8","a",
       "2","e","7","b","f","6","b","c","3","6","9","5","2","5","a","2","6","5",
       "4","a","a","2","9","8" >>

AI_SIGNER ==
    << "0","x","4","6","6","d","3","E","0","E","6","D","6","6","1","d","6","E",
       "7","6","2","6","e","9","d","e","a","9","3","c","4","6","0","B","D","4",
       "e","1","5","B","4","0" >>

WindowHours == 24
Retries == 3
BackoffMs == 1000


\* Chain ids of viem/chains, as resolveChain returns them.
mainnet == [id |-> 1]
arbitrum == [id |-> 42161]
base == [id |-> 8453]

\* The additionalInstruction of the three oracle requests, in the order sent.
Instruction ==
    << "",
       "You must respond with ONLY valid JSON, no other text or explanation.",
       "CRITICAL: Respond with ONLY a JSON object in the exact format {\"vote\": boolean, \"reason\": \"string\"} - no other text whatsoever." >>

FormatErrorMessage == "Failed to get valid JSON response after 3 attempts"
UnsupportedChainMessage == "Unsupported chain "
ReferenceErrorMessage == "publicClient is not defined"

\* The registry of validator modules (id and address).
validatorApps ==
    << [id |-> "remote-validator",
        address |-> "0x0000000000159aAFCA7067005E28665a28B5B4cf"],
       [id |-> "recovery-validator",
        address |-> "0x000000000000a78fb292191473e51dd34700c43d"],
       [id |-> "joint-validator",
        address |-> "0x000000000000D3D2b2980A7BC509018E4d88e947"],
       [id |-> "payment-validator",
        address |-> "0x00000000000032CD4FAE890F90e61e6864e44aa7"],
       [id |-> "permit-validator",
        address |-> "0x000000000000ab6c9FF3ed50AC4BAF2a20890835"] >>

\* getValidator(id): the registry entry; the code throws when there is none.
getValidator(id) ==
    LET found == { i \in DOMAIN validatorApps : validatorApps[i].id = id }
    IN  validatorApps[CHOOSE i \in found : \A j \in found : i <= j]

(***************************************************************************)
(* The nonce of an operation is a 256-bit number: a 192-bit key above a    *)
(* 64-bit sequence number.  It is kept as the pair of its two parts.  The  *)
(* key of a validator module is derived from the module's address; the     *)
(* all-zero key belongs to no module.                                      *)
(***************************************************************************)
ZeroKey == [module |-> "none"]
getValidatorKey(address) == [module |-> address]
getKeyFromNonce(nonce) == nonce.key

(***************************************************************************)
(* Hex strings and the packing of an operation (packInitCode,              *)
(* packAccountGasLimits, packGasLimits, packPaymasterAndData).  A hex      *)
(* string is the sequence of its characters, "0x" included.  viem's pad    *)
(* raises when the value is wider than the size asked for; the gas values  *)
(* enumerated below all fit in 16 bytes.                                   *)
(***************************************************************************)
EmptyHex == << "0", "x" >>

HexDigits ==
    << "0", "1", "2", "3", "4", "5", "6", "7", "8", "9", "a", "b", "c", "d", "e", "f" >>

\* n.toString(16)
RECURSIVE toString16(_)
toString16(n) ==
    IF n < 16 THEN << HexDigits[n + 1] >>
    ELSE toString16(n \div 16) \o << HexDigits[(n % 16) + 1] >>

\* toHex of a number or bigint: "0x" and the shortest hexadecimal notation.
toHex(n) == EmptyHex \o toString16(n)

\* The characters of a hex string after its "0x".
Strip(hex) == SubSeq(hex, 3, Len(hex))

\* pad(hex, { size }): to the left, with zeros, up to size bytes.
pad(hex, size) ==
    EmptyHex \o [ i \in 1..(2 * size - Len(Strip(hex))) |-> "0" ] \o Strip(hex)

\* concat(values): "0x" and the values' characters, in order.
RECURSIVE concat(_)
concat(values) ==
    IF values = << >> THEN EmptyHex
    ELSE EmptyHex \o Strip(values[1]) \o Strip(concat(Tail(values)))

\* The value toHex receives for an optional gas limit: `limit || 0`.
LimitOrZero(limit) == IF Truthy(limit) THEN limit.n ELSE 0

\* signProposal: let userOperation = {...}.
UserOperation(proposal) ==
    [ sender |-> proposal.sender,
      nonce |-> proposal.nonce,
      callData |-> proposal.callData,
      verificationGasLimit |-> proposal.verificationGasLimit,
      callGasLimit |-> proposal.callGasLimit,
      preVerificationGas |-> proposal.preVerificationGas,
      maxFeePerGas |-> proposal.maxFeePerGas,
      maxPriorityFeePerGas |-> proposal.maxPriorityFeePerGas,
      factory |-> proposal.factory,
      factoryData |-> proposal.factoryData,
      paymaster |-> proposal.paymaster,
      paymasterPostOpGasLimit |->
          IF Truthy(proposal.paymasterPostOpGasLimit)
            THEN proposal.paymasterPostOpGasLimit ELSE Undefined,
      paymasterVerificationGasLimit |->
          IF Truthy(proposal.paymasterVerificationGasLimit)
            THEN proposal.paymasterVerificationGasLimit ELSE Undefined,
      paymasterData |-> proposal.paymasterData ]

packInitCode(unpackedUserOperation) ==
    IF Truthy(unpackedUserOperation.factory)
      THEN concat(<< unpackedUserOperation.factory.h,
                     Or(unpackedUserOperation.factoryData, Hex(EmptyHex)).h >>)
      ELSE EmptyHex

\* The two halves the other way round.
packAccountGasLimitsSwapped(unpackedUserOperation) ==
    concat(<< pad(toHex(unpackedUserOperation.callGasLimit), 16),
              pad(toHex(unpackedUserOperation.verificationGasLimit), 16) >>)

packAccountGasLimits(unpackedUserOperation) ==
    concat(<< pad(toHex(unpackedUserOperation.verificationGasLimit), 16),
              pad(toHex(unpackedUserOperation.callGasLimit), 16) >>)

packGasLimits(unpackedUserOperation) ==
    concat(<< pad(toHex(unpackedUserOperation.maxPriorityFeePerGas), 16),
              pad(toHex(unpackedUserOperation.maxFeePerGas), 16) >>)

\* The two gas limits the other way round.
packPaymasterAndDataSwapped(unpackedUserOperation) ==
    IF Truthy(unpackedUserOperation.paymaster)
      THEN concat(<< unpackedUserOperation.paymaster.h,
                     pad(toHex(LimitOrZero(unpackedUserOperation.paymasterPostOpGasLimit)), 16),
                     pad(toHex(LimitOrZero(unpackedUserOperation.paymasterVerificationGasLimit)), 16),
                     Or(unpackedUserOperation.paymasterData, Hex(EmptyHex)).h >>)
      ELSE EmptyHex

packPaymasterAndData(unpackedUserOperation) ==
    IF Truthy(unpackedUserOperation.paymaster)
      THEN concat(<< unpackedUserOperation.paymaster.h,
                     pad(toHex(LimitOrZero(unpackedUserOperation.paymasterVerificationGasLimit)), 16),
                     pad(toHex(LimitOrZero(unpackedUserOperation.paymasterPostOpGasLimit)), 16),
                     Or(unpackedUserOperation.paymasterData, Hex(EmptyHex)).h >>)
      ELSE EmptyHex

\* signProposal: const message = {...}.
Message(proposal) ==
    LET userOperation == UserOperation(proposal)
    IN  [ sender |-> userOperation.sender,
          nonce |-> userOperation.nonce,
          initCode |-> packInitCode(userOperation),
          callData |-> userOperation.callData,
          accountGasLimits |-> packAccountGasLimits(userOperation),
          preVerificationGas |-> userOperation.preVerificationGas,
          gasFees |-> packGasLimits(userOperation),
          paymasterAndData |-> packPaymasterAndData(userOperation),
          validUntil |-> 0,
          validAfter |-> 0 ]

(***************************************************************************)
(* The environment: the proposals written upstream, the address of the KMS *)
(* account, the texts the oracle answers with, the signatures the signer   *)
(* returns, and the messages of the errors the collaborators raise.        *)
(***************************************************************************)
OTHER_SENDER ==
    << "0","x","0","0","0","0","0","0","0","0","0","0","0","0","1","D","8","A",
       "2","e","7","b","f","6","b","c","3","6","9","5","2","5","a","2","6","5",
       "4","a","a","2","9","8" >>

OTHER_SIGNER ==
    << "0","x","7","7","7","d","3","E","0","E","6","D","6","6","1","d","6","E",
       "7","6","2","6","e","9","d","e","a","9","3","c","4","6","0","B","D","4",
       "e","1","5","B","4","0" >>

\* The gas fields, factory fields and paymaster fields of a proposals row.
Gas(verification, call, maxFee, maxPriorityFee) ==
    [ verificationGasLimit |-> verification, callGasLimit |-> call,
      maxFeePerGas |-> maxFee, maxPriorityFeePerGas |-> maxPriorityFee ]

Factory(factory, factoryData) == [ factory |-> factory, factoryData |-> factoryData ]

Paymaster(paymaster, verification, postOp, data) ==
    [ paymaster |-> paymaster, paymasterVerificationGasLimit |-> verification,
      paymasterPostOpGasLimit |-> postOp, paymasterData |-> data ]

FACTORY_ADDRESS ==
    << "0","x","0","0","0","0","0","0","0","0","0","0","0","0","8","8","3","0",
       "3","4","f","0","5","e","3","0","b","5","b","f","5","3","9","7","0","1",
       "7","0","a","f","c","e" >>

PAYMASTER_ADDRESS ==
    << "0","x","7","7","7","7","7","7","7","7","7","7","7","7","1","4","e","9",
       "0","8","f","d","c","2","5","1","b","2","0","7","2","1","b","9","e","d",
       "2","6","4","0","4","5" >>

\* A proposals row: the columns the handler reads.
Operation(hash, sender, createdAt, chain, key, gas, factory, paymaster) ==
    [ userOpHash |-> hash, sender |-> sender, created_at |-> createdAt,
      chain |-> chain, nonce |-> [key |-> key, seq |-> 0],
      callData |-> << "0","x","a","9","0","5" >>,
      preVerificationGas |-> 48000,
      verificationGasLimit |-> gas.verificationGasLimit,
      callGasLimit |-> gas.callGasLimit,
      maxFeePerGas |-> gas.maxFeePerGas,
      maxPriorityFeePerGas |-> gas.maxPriorityFeePerGas,
      factory |-> factory.factory,
      factoryData |-> factory.factoryData,
      paymaster |-> paymaster.paymaster,
      paymasterVerificationGasLimit |-> paymaster.paymasterVerificationGasLimit,
      paymasterPostOpGasLimit |-> paymaster.paymasterPostOpGasLimit,
      paymasterData |-> paymaster.paymasterData ]

\* A row with neither factory nor paymaster.
Proposal(hash, sender, createdAt, chain, key) ==
    Operation(hash, sender, createdAt, chain, key, Gas(100000, 21000, 100, 1),
              Factory(Null, Null), Paymaster(Null, Null, Null, Null))

Catalogue ==
    { Operation(<<"0","x","a","1">>, TARGET_SENDER, 0, <<"e","t","h">>, ZeroKey,
                Gas(100000, 21000, 100, 1), Factory(Null, Null),
                Paymaster(Hex(PAYMASTER_ADDRESS), Num(30000), Null, Null)),
      Operation(<<"0","x","B","2">>, TARGET_SENDER, 2, <<"B","a","s","e">>,
                getValidatorKey(getValidator("recovery-validator").address),
                Gas(65536, 255, 16, 4096),
                Factory(Hex(FACTORY_ADDRESS), Hex(<< "0","x","5","f","b","f" >>)),
                Paymaster(Null, Null, Null, Null)),
      Proposal(<<"0","x","c","3">>, TARGET_SENDER, 2,
               <<"a","r","b","i","t","r","u","m">>,
               getValidatorKey(getValidator("remote-validator").address)),
      Proposal(<<"0","x","d","4">>, TARGET_SENDER, 1,
               <<"s","o","l","a","n","a">>, ZeroKey),
      Proposal(<<"0","x","e","5">>, OTHER_SENDER, 1, <<"e","t","h">>, ZeroKey) }

Tables(n) == { T \in SUBSET Catalogue : Cardinality(T) <= n }

\* Operations for the packing: the gas fields, the paymaster fields and the
\* factory fields each range over their values, absent ones included.
GasValues == { 0, 1, 21000, 2147483647 }

LimitValues == { Null, Num(0), Num(30000) }

PaymasterValues == { Null, Undefined, Hex(<< >>), Hex(PAYMASTER_ADDRESS) }

DataValues == { Null, Hex(EmptyHex), Hex(<< "0","x","c","0","d","e" >>) }

FactoryValues == { Null, Hex(<< >>), Hex(FACTORY_ADDRESS) }

PackOperation(gas, factory, paymaster) ==
    Operation(<<"0","x","a","1">>, TARGET_SENDER, 0, <<"e","t","h">>, ZeroKey,
              gas, factory, paymaster)

PackCatalogue ==
    { PackOperation(Gas(v, c, f, p), Factory(Null, Null), Paymaster(Null, Null, Null, Null)) :
        v \in GasValues, c \in GasValues, f \in GasValues, p \in GasValues }
    \cup
    { PackOperation(Gas(100000, 21000, 100, 1), Factory(Null, Null), Paymaster(a, v, o, d)) :
        a \in PaymasterValues, v \in LimitValues, o \in LimitValues, d \in DataValues }
    \cup
    { PackOperation(Gas(100000, 21000, 100, 1), Factory(a, d), Paymaster(Null, Null, Null, Null)) :
        a \in FactoryValues, d \in DataValues }

KmsAddresses == { AI_SIGNER, OTHER_SIGNER }

NowStart == WindowHours

\* A response body: either it parses as JSON, to `value`, or it does not.
Json(v) == [parses |-> TRUE, value |-> v]
Garbage == [parses |-> FALSE, value |-> Undefined]

Texts ==
    { Garbage, Json(Null), Json(Bool(FALSE)),
      Json(Obj(Bool(TRUE), Str("in the interest of the DAO"))),
      Json(Obj(Bool(FALSE), Str("not in the interest of the DAO"))),
      Json(Obj(Str("false"), Str("in the interest of the DAO"))) }

SignerOutputs == { "0x5161" }

QueryErrorMessage == "connection terminated"
CredentialErrorMessage == "invalid credentials"
FetchErrorMessage == "fetch failed"
RpcErrorMessage == "eip712Domain reverted"
SignErrorMessage == "kms unavailable"
InsertErrorMessage == "insert failed"

NoAccount == << >>
NoText == [parses |-> FALSE, value |-> Null]
NoCall == [domain |-> Null]
NoResponse == [status |-> 0]


(***************************************************************************)
(* getRecentProposals: the query.                                          *)
(***************************************************************************)
\* SELECT hash FROM signatures WHERE signer = $2
RecordedHashes(signer) ==
    { signatures[k].hash : k \in { j \in DOMAIN signatures : signatures[j].signer = signer } }

\* The WHERE clause, evaluated at database time t.
Pending(t, sender, signer) ==
    { p \in proposals :
        /\ p.created_at >= t - WindowHours
        /\ p.sender = sender
        /\ p.userOpHash \notin RecordedHashes(signer) }

\* The rows without ORDER BY: every arrangement, whatever the creation times.
Unordered(S) ==
    { s \in [1..Cardinality(S) -> S] :
        \A i, j \in DOMAIN s : i # j => s[i] # s[j] }

\* ORDER BY created_at ASC: every arrangement of the rows with ascending
\* creation time (rows of equal time come in either order).
Ascending(S) ==
    { s \in [1..Cardinality(S) -> S] :
        /\ \A i, j \in DOMAIN s : i # j => s[i] # s[j]
        /\ \A i, j \in DOMAIN s : i < j => s[i].created_at <= s[j].created_at }

QueryRows(t) ==
    Ascending(Pending(t, toLowerCase(TARGET_SENDER), toLowerCase(AI_SIGNER)))

(***************************************************************************)
(* The handler's two catch blocks.                                         *)
(***************************************************************************)
\* Outer catch: res.status(500).json({error, details}).
BatchFailure(r, message) ==
    /\ response' = [response EXCEPT ![r] =
           [status |-> 500, error |-> "Internal Server Error", details |-> message]]
    /\ pc' = [pc EXCEPT ![r] = "done"]

\* The inner catch left out: the exception reaches the outer catch.
ProposalFailureRethrown(r, message) ==
    /\ BatchFailure(r, message)
    /\ UNCHANGED results

\* The inner catch without its push: the loop goes on, nothing is reported.
ProposalFailureSkipped(r, message) ==
    /\ pc' = [pc EXCEPT ![r] = "loop"]
    /\ UNCHANGED << results, response >>

\* Inner catch: push {hash, status: "error", error} and go on with the loop.
ProposalFailure(r, message) ==
    /\ results' = [results EXCEPT ![r] = Append(@,
           [hash |-> backlog[r][idx[r]].userOpHash, status |-> "error",
            error |-> message])]
    /\ pc' = [pc EXCEPT ![r] = "loop"]
    /\ UNCHANGED response

(***************************************************************************)
(* The handler, one action per awaited call and its continuation.          *)
(***************************************************************************)
\* Invocation r begins; the frames of the invocations that have answered are
\* released.
Begin(r) ==
    LET reset(f, v) == [q \in Runs |-> IF q = r \/ pc[q] = "done" THEN v ELSE f[q]]
    IN  /\ pc' = [pc EXCEPT ![r] = "fetch"]
        /\ baseline' = [baseline EXCEPT ![r] = Len(signatures)]
        /\ tries' = reset(tries, 0)
        /\ waits' = reset(waits, << >>)
        /\ backlog' = reset(backlog, << >>)
        /\ account' = reset(account, NoAccount)
        /\ idx' = reset(idx, 0)
        /\ steps' = reset(steps, << >>)
        /\ text' = reset(text, NoText)
        /\ decision' = reset(decision, Undefined)
        /\ signing' = reset(signing, NoCall)
        /\ sig' = reset(sig, "")
        /\ results' = reset(results, << >>)
        /\ response' = reset(response, NoResponse)
        /\ UNCHANGED << proposals, signatures, now, kms >>

\* A request arrives after the earlier invocations have answered.
Invoke(r) ==
    /\ pc[r] = "idle"
    /\ \A q \in Runs : q < r => pc[q] = "done"
    /\ Begin(r)

\* A request arrives, whatever the other invocation is doing.
InvokeOverlapping(r) ==
    /\ pc[r] = "idle"
    /\ Begin(r)

\* getRecentProposals, pool.query resolves: return result.rows.
QueryOk(r) ==
    /\ pc[r] = "fetch"
    /\ \E t \in now..MaxNow :
         /\ now' = t
         /\ \E rows \in QueryRows(t) : backlog' = [backlog EXCEPT ![r] = rows]
    /\ pc' = [pc EXCEPT ![r] = "account"]
    /\ UNCHANGED << proposals, signatures, kms, baseline, tries, waits, account,
                    idx, steps, text, decision, signing, sig, results, response >>

\* The delay before attempt i + 2: 1000 * (i + 1).
BackoffSame(i) == BackoffMs

Backoff(i) == BackoffMs * (i + 1)

\* getRecentProposals, pool.query rejects: rethrow on the last attempt, else
\* set the timer of 1000 * (i + 1) ms and await it; no query is in flight
\* while it runs.
QueryFail(r) ==
    /\ pc[r] = "fetch"
    /\ IF tries[r] = Retries - 1
         THEN /\ BatchFailure(r, QueryErrorMessage)
              /\ UNCHANGED waits
         ELSE /\ waits' = [waits EXCEPT ![r] = Append(@, Backoff(tries[r]))]
              /\ pc' = [pc EXCEPT ![r] = "backoff"]
              /\ UNCHANGED response
    /\ UNCHANGED << proposals, signatures, now, kms, baseline, tries, backlog,
                    account, idx, steps, text, decision, signing, sig, results >>

\* The timer fires: i++ and the next pool.query is issued.
BackoffDone(r) ==
    /\ pc[r] = "backoff"
    /\ tries' = [tries EXCEPT ![r] = @ + 1]
    /\ pc' = [pc EXCEPT ![r] = "fetch"]
    /\ UNCHANGED << proposals, signatures, now, kms, baseline, waits, backlog,
                    account, idx, steps, text, decision, signing, sig, results,
                    response >>

\* toGcpAccount resolves; the frame of getRecentProposals is gone.
AccountOk(r) ==
    /\ pc[r] = "account"
    /\ account' = [account EXCEPT ![r] = kms]
    /\ tries' = [tries EXCEPT ![r] = 0]
    /\ waits' = [waits EXCEPT ![r] = << >>]
    /\ pc' = [pc EXCEPT ![r] = "loop"]
    /\ UNCHANGED << proposals, signatures, now, kms, baseline, backlog, idx, steps,
                    text, decision, signing, sig, results, response >>

\* toGcpAccount rejects.
AccountFail(r) ==
    /\ pc[r] = "account"
    /\ BatchFailure(r, CredentialErrorMessage)
    /\ tries' = [tries EXCEPT ![r] = 0]
    /\ waits' = [waits EXCEPT ![r] = << >>]
    /\ UNCHANGED << proposals, signatures, now, kms, baseline, backlog, account,
                    idx, steps, text, decision, signing, sig, results >>

\* for (const proposal of proposals): the next iteration begins.
NextProposal(r) ==
    /\ pc[r] = "loop"
    /\ idx[r] < Len(backlog[r])
    /\ idx' = [idx EXCEPT ![r] = @ + 1]
    /\ steps' = [steps EXCEPT ![r] = << >>]
    /\ text' = [text EXCEPT ![r] = NoText]
    /\ decision' = [decision EXCEPT ![r] = Undefined]
    /\ signing' = [signing EXCEPT ![r] = NoCall]
    /\ sig' = [sig EXCEPT ![r] = ""]
    /\ pc' = [pc EXCEPT ![r] = "oracle"]
    /\ UNCHANGED << proposals, signatures, now, kms, baseline, tries, waits,
                    backlog, account, results, response >>

\* The loop is over and the handler returns without answering.
RespondOmitted(r) ==
    /\ pc[r] = "loop"
    /\ idx[r] = Len(backlog[r])
    /\ pc' = [pc EXCEPT ![r] = "done"]
    /\ UNCHANGED << proposals, signatures, now, kms, baseline, tries, waits,
                    backlog, account, idx, steps, text, decision, signing, sig,
                    results, response >>

\* The loop is over: res.status(200).json({message, results}).
Respond(r) ==
    /\ pc[r] = "loop"
    /\ idx[r] = Len(backlog[r])
    /\ response' = [response EXCEPT ![r] =
           [status |-> 200, processed |-> Len(backlog[r]), results |-> results[r]]]
    /\ pc' = [pc EXCEPT ![r] = "done"]
    /\ UNCHANGED << proposals, signatures, now, kms, baseline, tries, waits,
                    backlog, account, idx, steps, text, decision, signing, sig,
                    results >>


\* One entry of `steps`: the call, its argument of interest, and how it ended
\* ("ok" when it returned, "throw" when it raised).
Step(op, arg, out) == [op |-> op, arg |-> arg, out |-> out]

Calls(r, op) == SelectSeq(steps[r], LAMBDA e : e.op = op)

(***************************************************************************)
(* getNaniVote.                                                            *)
(***************************************************************************)
\* makeRequest: JSON.parse(text), or null when it throws.
makeRequest(body) == IF body.parses THEN body.value ELSE Null

\* Every decision taken for an approval.
ApprovesAlways(vote) == TRUE

\* if (Boolean(vote) === true)
Approves(vote) == Truthy(vote)

\* makeRequest: fetch resolves with a response; response.text() is awaited.
OracleFetchOk(r) ==
    /\ pc[r] = "oracle"
    /\ pc' = [pc EXCEPT ![r] = "body"]
    /\ UNCHANGED << proposals, signatures, now, kms, baseline, tries, waits,
                    backlog, account, idx, steps, text, decision, signing, sig,
                    results, response >>

\* response.text() of request number Len(steps[r]) + 1 resolves with `body`.
\* When another request follows, its fetch is issued in the same turn.
OracleReply(r) ==
    /\ pc[r] = "body"
    /\ \E body \in Texts :
         LET k == Len(steps[r])
             result == makeRequest(body)
         IN  /\ steps' = [steps EXCEPT ![r] = Append(@, Step("evaluate", Instruction[k + 1], "ok"))]
             /\ text' = [text EXCEPT ![r] = body]
             /\ IF Truthy(result)
                  THEN \* if (result) return result; then the handler's branch
                       /\ decision' = [decision EXCEPT ![r] = result]
                       /\ pc' = [pc EXCEPT ![r] =
                              IF Approves(Field(result, "vote")) THEN "domain" ELSE "store"]
                       /\ UNCHANGED << results, response >>
                  ELSE IF k + 1 = Len(Instruction)
                  THEN \* throw new Error("Failed to get valid JSON response ...")
                       /\ ProposalFailure(r, FormatErrorMessage)
                       /\ UNCHANGED decision
                  ELSE /\ pc' = [pc EXCEPT ![r] = "oracle"]
                       /\ UNCHANGED << decision, results, response >>
    /\ UNCHANGED << proposals, signatures, now, kms, baseline, tries, waits,
                    backlog, account, idx, signing, sig >>

\* A rejected fetch treated like an unparsable body: the next request follows.
OracleThrowRetried(r) ==
    /\ pc[r] = "oracle"
    /\ steps' = [steps EXCEPT ![r] =
           Append(@, Step("evaluate", Instruction[Len(steps[r]) + 1], "throw"))]
    /\ text' = [text EXCEPT ![r] = NoText]
    /\ IF Len(steps[r]) + 1 = Len(Instruction)
         THEN ProposalFailure(r, FormatErrorMessage)
         ELSE UNCHANGED << pc, results, response >>
    /\ UNCHANGED << proposals, signatures, now, kms, baseline, tries, waits,
                    backlog, account, idx, decision, signing, sig >>

\* fetch rejects: nothing in getNaniVote catches it.
OracleThrow(r) ==
    /\ pc[r] = "oracle"
    /\ steps' = [steps EXCEPT ![r] =
           Append(@, Step("evaluate", Instruction[Len(steps[r]) + 1], "throw"))]
    /\ text' = [text EXCEPT ![r] = NoText]
    /\ ProposalFailure(r, FetchErrorMessage)
    /\ UNCHANGED << proposals, signatures, now, kms, baseline, tries, waits,
                    backlog, account, idx, decision, signing, sig >>

\* response.text() rejects, after fetch has resolved: not caught either.
OracleBodyThrow(r) ==
    /\ pc[r] = "body"
    /\ steps' = [steps EXCEPT ![r] =
           Append(@, Step("evaluate", Instruction[Len(steps[r]) + 1], "throw"))]
    /\ text' = [text EXCEPT ![r] = NoText]
    /\ ProposalFailure(r, FetchErrorMessage)
    /\ UNCHANGED << proposals, signatures, now, kms, baseline, tries, waits,
                    backlog, account, idx, decision, signing, sig >>

(***************************************************************************)
(* signProposal and getDomain.                                             *)
(***************************************************************************)
ChainNames ==
    [ eth |-> <<"e","t","h">>,
      arbitrum |-> <<"a","r","b","i","t","r","u","m">>,
      base |-> <<"b","a","s","e">> ]

Supported(chain) ==
    toLowerCase(chain) \in { ChainNames.eth, ChainNames.arbitrum, ChainNames.base }

\* resolveChain, for a chain it does not throw on.
resolveChain(chain) ==
    LET c == toLowerCase(chain)
    IN  CASE c = ChainNames.eth -> mainnet
          [] c = ChainNames.arbitrum -> arbitrum
          [] c = ChainNames.base -> base

\* What eip712Domain() of the account contract answers, as getDomain returns it.
ContractDomain(sender, chain) ==
    [ name |-> "NANI", version |-> "1", chainId |-> resolveChain(chain).id,
      verifyingContract |-> sender ]

\* The nonce key selects the remote validator's domain.
Overrides(nonce) ==
    LET key == getKeyFromNonce(nonce)
    IN  /\ key # ZeroKey
        /\ key = getValidatorKey(getValidator("remote-validator").address)

\* The domain the override branch means to build, with the chain id of the
\* client getDomain created for the proposal's chain.
RemoteValidatorDomain(chain) ==
    [ name |-> "RemoteValidator", version |-> "1.0.0",
      chainId |-> resolveChain(chain).id,
      verifyingContract |-> getValidator("remote-validator").address ]

\* getDomain: resolveChain throws before anything is read.
DomainUnsupported(r) ==
    /\ pc[r] = "domain"
    /\ ~ Supported(backlog[r][idx[r]].chain)
    /\ steps' = [steps EXCEPT ![r] = Append(@, Step("resolve", "", "throw"))]
    /\ ProposalFailure(r, UnsupportedChainMessage)
    /\ UNCHANGED << proposals, signatures, now, kms, baseline, tries, waits,
                    backlog, account, idx, text, decision, signing, sig >>

\* getDomain: readContract rejects.
DomainFail(r) ==
    /\ pc[r] = "domain"
    /\ Supported(backlog[r][idx[r]].chain)
    /\ steps' = [steps EXCEPT ![r] = Append(@, Step("resolve", "", "throw"))]
    /\ ProposalFailure(r, RpcErrorMessage)
    /\ UNCHANGED << proposals, signatures, now, kms, baseline, tries, waits,
                    backlog, account, idx, text, decision, signing, sig >>

\* getDomain returns; signProposal packs the message and checks the nonce key.
\* In the override branch `publicClient` is not in scope: evaluating
\* publicClient.chain.id throws a ReferenceError.
DomainOk(r) ==
    /\ pc[r] = "domain"
    /\ Supported(backlog[r][idx[r]].chain)
    /\ steps' = [steps EXCEPT ![r] = Append(@, Step("resolve", "", "ok"))]
    /\ LET proposal == backlog[r][idx[r]]
       IN  IF Overrides(proposal.nonce)
             THEN /\ ProposalFailure(r, ReferenceErrorMessage)
                  /\ UNCHANGED signing
             ELSE /\ signing' = [signing EXCEPT ![r] =
                         [ domain |-> ContractDomain(proposal.sender, proposal.chain),
                           message |-> Message(proposal) ]]
                  /\ pc' = [pc EXCEPT ![r] = "sign"]
                  /\ UNCHANGED << results, response >>
    /\ UNCHANGED << proposals, signatures, now, kms, baseline, tries, waits,
                    backlog, account, idx, text, decision, sig >>

\* account.signTypedData resolves with a signature.
SignOk(r) ==
    /\ pc[r] = "sign"
    /\ steps' = [steps EXCEPT ![r] = Append(@, Step("sign", "", "ok"))]
    /\ \E s \in SignerOutputs : sig' = [sig EXCEPT ![r] = s]
    /\ pc' = [pc EXCEPT ![r] = "store"]
    /\ UNCHANGED << proposals, signatures, now, kms, baseline, tries, waits,
                    backlog, account, idx, text, decision, signing, results,
                    response >>

\* account.signTypedData rejects.
SignFail(r) ==
    /\ pc[r] = "sign"
    /\ steps' = [steps EXCEPT ![r] = Append(@, Step("sign", "", "throw"))]
    /\ ProposalFailure(r, SignErrorMessage)
    /\ UNCHANGED << proposals, signatures, now, kms, baseline, tries, waits,
                    backlog, account, idx, text, decision, signing, sig >>

(***************************************************************************)
(* addSignature and the two result entries.                                *)
(***************************************************************************)
\* The values of the INSERT.
Row(signer, sender, hash, signature, reason) ==
    [ signer |-> toLowerCase(signer), account |-> toLowerCase(sender),
      hash |-> toLowerCase(hash), signature |-> signature, content |-> reason ]

\* results.push of the branch taken.
Outcome(hash, vote, reason, signature) ==
    IF Approves(vote)
      THEN [ hash |-> hash, status |-> "success", signature |-> signature,
             vote |-> vote, reason |-> reason ]
      ELSE [ hash |-> hash, status |-> "rejected", vote |-> vote, reason |-> reason ]

\* addSignature: the INSERT succeeds; the handler pushes the result.
StoreOk(r) ==
    /\ pc[r] = "store"
    /\ LET proposal == backlog[r][idx[r]]
           vote == Field(decision[r], "vote")
           reason == Field(decision[r], "reason")
       IN  /\ signatures' = Append(signatures,
                  Row(account[r], proposal.sender, proposal.userOpHash, sig[r], reason))
           /\ results' = [results EXCEPT ![r] =
                  Append(@, Outcome(proposal.userOpHash, vote, reason, sig[r]))]
    /\ steps' = [steps EXCEPT ![r] = Append(@, Step("store", sig[r], "ok"))]
    /\ pc' = [pc EXCEPT ![r] = "loop"]
    /\ UNCHANGED << proposals, now, kms, baseline, tries, waits, backlog, account,
                    idx, text, decision, signing, sig, response >>

\* addSignature: the INSERT fails; addSignature logs and rethrows.
StoreFail(r) ==
    /\ pc[r] = "store"
    /\ steps' = [steps EXCEPT ![r] = Append(@, Step("store", sig[r], "throw"))]
    /\ ProposalFailure(r, InsertErrorMessage)
    /\ UNCHANGED << proposals, signatures, now, kms, baseline, tries, waits,
                    backlog, account, idx, text, decision, signing, sig >>

(***************************************************************************)
(* Specifications.                                                         *)
(***************************************************************************)
InitRuns ==
    /\ signatures = << >>
    /\ now = NowStart
    /\ kms \in KmsAddresses
    /\ baseline = [r \in Runs |-> 0]
    /\ pc = [r \in Runs |-> "idle"]
    /\ tries = [r \in Runs |-> 0]
    /\ waits = [r \in Runs |-> << >>]
    /\ backlog = [r \in Runs |-> << >>]
    /\ account = [r \in Runs |-> NoAccount]
    /\ idx = [r \in Runs |-> 0]
    /\ steps = [r \in Runs |-> << >>]
    /\ text = [r \in Runs |-> NoText]
    /\ decision = [r \in Runs |-> Undefined]
    /\ signing = [r \in Runs |-> NoCall]
    /\ sig = [r \in Runs |-> ""]
    /\ results = [r \in Runs |-> << >>]
    /\ response = [r \in Runs |-> NoResponse]

Init ==
    /\ proposals \in Tables(MaxBacklog)
    /\ InitRuns

InitConc ==
    /\ proposals \in Tables(ConcBacklog)
    /\ InitRuns

\* One pending operation out of the packing catalogue.
InitPack ==
    /\ \E operation \in PackCatalogue : proposals = { operation }
    /\ InitRuns

Handler(r) ==
    \/ QueryOk(r) \/ QueryFail(r) \/ BackoffDone(r)
    \/ AccountOk(r) \/ AccountFail(r)
    \/ NextProposal(r) \/ Respond(r)
    \/ OracleFetchOk(r) \/ OracleReply(r) \/ OracleThrow(r) \/ OracleBodyThrow(r)
    \/ DomainUnsupported(r) \/ DomainFail(r) \/ DomainOk(r)
    \/ SignOk(r) \/ SignFail(r)
    \/ StoreOk(r) \/ StoreFail(r)

\* Invocations one after the other.
Next == \E r \in Runs : Invoke(r) \/ Handler(r)

\* Invocations that may overlap.
NextConc == \E r \in Runs : InvokeOverlapping(r) \/ Handler(r)

\* One invocation in which every collaborator answers.
NextPack ==
    \/ Invoke(1) \/ QueryOk(1) \/ AccountOk(1) \/ NextProposal(1)
    \/ OracleFetchOk(1) \/ OracleReply(1)
    \/ DomainOk(1) \/ SignOk(1) \/ StoreOk(1) \/ Respond(1)

Spec == Init /\ [][Next]_vars

SpecPack == InitPack /\ [][NextPack]_vars

\* One invocation.
NextLive == Invoke(1) \/ Handler(1)

\* Every call the invocation awaits settles: it returns or it throws.
SpecLive == Init /\ [][NextLive]_vars /\ WF_vars(Handler(1))

SpecConc == InitConc /\ [][NextConc]_vars


(***************************************************************************)
(* Vocabulary of the properties.                                           *)
(***************************************************************************)
\* The proposal invocation r is working on, or has just finished.
Current(r) == backlog[r][idx[r]]

\* The iteration for the current proposal is over: its result is pushed.
Finished(r) == idx[r] > 0 /\ pc[r] \in {"loop", "done"}

\* Rows of the store recorded for a signer address and an operation hash.
RowsFor(signer, hash) ==
    { k \in DOMAIN signatures :
        /\ signatures[k].signer = toLowerCase(signer)
        /\ signatures[k].hash = toLowerCase(hash) }

\* Rows the current iteration of r has inserted itself.
OwnInserts(r) == Len(SelectSeq(steps[r], LAMBDA e : e.op = "store" /\ e.out = "ok"))

(***************************************************************************)
(* C1.  The outcome store holds at most one row per (signer, hash), also   *)
(* when invocations overlap or repeat: two invocations that fetched the    *)
(* same pending proposal never both insert a row for it.                   *)
(***************************************************************************)
C1_OneRowPerSignerHash ==
    \A i, j \in DOMAIN signatures :
        i < j => ~ ( /\ signatures[i].signer = signatures[j].signer
                     /\ signatures[i].hash = signatures[j].hash )

(***************************************************************************)
(* C2.  Once an invocation has recorded a row for a proposal under the     *)
(* signing account's address, a later invocation does nothing for that     *)
(* proposal: no oracle request, no signature, no further row; for every    *)
(* signing address and every casing of the hash.                           *)
(***************************************************************************)
C2_ProcessedAtMostOnce ==
    \A r \in Runs :
        ( /\ idx[r] > 0
          /\ Cardinality(RowsFor(account[r], Current(r).userOpHash)) > OwnInserts(r) )
        => ( /\ steps[r] = << >>
             /\ pc[r] \notin {"oracle", "body"} )

(***************************************************************************)
(* C3.  getRecentProposals returns no proposal whose hash has a row        *)
(* recorded for the querying signer (rows hold the hash as addSignature    *)
(* writes it); every returned proposal is addressed to the target account; *)
(* the returned sequence is in ascending creation-time order.  (Stated     *)
(* where the rows have just been returned and nothing has been inserted    *)
(* since.)                                                                 *)
(***************************************************************************)
C3_QueryExcludesRecorded ==
    \A r \in Runs :
        pc[r] = "account" =>
            /\ \A k \in DOMAIN backlog[r] :
                 /\ RowsFor(AI_SIGNER, backlog[r][k].userOpHash) = {}
                 /\ backlog[r][k].sender = toLowerCase(TARGET_SENDER)
                 /\ backlog[r][k] \in proposals
            /\ \A k \in 1..(Len(backlog[r]) - 1) :
                 backlog[r][k].created_at <= backlog[r][k + 1].created_at

(***************************************************************************)
(* C4.  Once the backlog is fetched and the account obtained, an exception *)
(* raised while a proposal is processed gives that proposal the status     *)
(* "error" and nothing else: the loop goes on, every fetched proposal gets *)
(* its entry, and the invocation answers 200, never 500.                   *)
(***************************************************************************)
\* The iteration ended otherwise than by the push after a successful insert.
Raised(r) ==
    /\ Finished(r)
    /\ steps[r][Len(steps[r])] # Step("store", sig[r], "ok")

C4_FailureIsolation ==
    \A r \in Runs :
        /\ idx[r] > 0 => response[r].status # 500
        /\ Finished(r) =>
             /\ Len(results[r]) = idx[r]
             /\ \A k \in 1..idx[r] : results[r][k].hash = backlog[r][k].userOpHash
        /\ Raised(r) => results[r][idx[r]].status = "error"
        /\ pc[r] = "done" /\ account[r] # NoAccount =>
             /\ response[r].status = 200
             /\ idx[r] = Len(backlog[r])
             /\ response[r].results = results[r]

\* A failed insert for the first proposal, the second one signed and stored,
\* and the success response.
C4_Witness ==
    /\ response[1].status = 200
    /\ Len(results[1]) = 2
    /\ results[1][1].status = "error"
    /\ results[1][1].error = InsertErrorMessage
    /\ results[1][2].status = "success"


(***************************************************************************)
(* C5.  A proposal whose decision has vote = false gets exactly one row,   *)
(* with the empty signature and the decision's reason, and the status      *)
(* "rejected"; neither the domain resolver nor the signer is invoked.      *)
(***************************************************************************)
Rejected(r) == Finished(r) /\ Field(decision[r], "vote") = Bool(FALSE)

NotSigned(r) == Calls(r, "resolve") = << >> /\ Calls(r, "sign") = << >>

RejectionRow(r) ==
    Row(account[r], Current(r).sender, Current(r).userOpHash, "",
        Field(decision[r], "reason"))

\* As claimed: also when the INSERT fails.
C5_RejectionStored ==
    \A r \in Runs :
        Rejected(r) =>
            /\ NotSigned(r)
            /\ OwnInserts(r) = 1
            /\ signatures # << >> /\ signatures[Len(signatures)] = RejectionRow(r)
            /\ results[r][idx[r]].status = "rejected"

\* As the code has it: one INSERT is attempted; the row and the status
\* "rejected" follow when it succeeds, the status "error" and no row when it
\* fails.
C5_RejectionStoredIfInsertSucceeds ==
    \A r \in Runs :
        Rejected(r) =>
            /\ NotSigned(r)
            /\ Len(Calls(r, "store")) = 1
            /\ Calls(r, "store")[1].arg = ""
            /\ IF Calls(r, "store")[1].out = "ok"
                 THEN /\ Len(signatures) > baseline[r]
                      /\ signatures[Len(signatures)] = RejectionRow(r)
                      /\ signatures[Len(signatures)].signature = ""
                      /\ results[r][idx[r]] =
                           [ hash |-> Current(r).userOpHash, status |-> "rejected",
                             vote |-> Bool(FALSE),
                             reason |-> Field(decision[r], "reason") ]
                 ELSE /\ results[r][idx[r]].status = "error"
                      /\ results[r][idx[r]].error = InsertErrorMessage
                      /\ Len(signatures) - baseline[r] < idx[r]

\* A rejection that was stored and reported.
C5_Witness ==
    /\ Rejected(1)
    /\ results[1][idx[1]].status = "rejected"
    /\ signatures # << >>
    /\ signatures[Len(signatures)].signature = ""
    /\ signatures[Len(signatures)].content = Str("not in the interest of the DAO")

(***************************************************************************)
(* C6.  A proposal whose decision has vote = true, on a supported chain,   *)
(* with no failing collaborator, is signed exactly once; one row carries   *)
(* the signer's non-empty signature; the status is "success" with that     *)
(* signature; the calls come in the order evaluate, resolve, sign, store.  *)
(***************************************************************************)
C6_ApprovalSignedAndStored ==
    \A r \in Runs :
        ( /\ Finished(r)
          /\ Field(decision[r], "vote") = Bool(TRUE)
          /\ Supported(Current(r).chain)
          /\ \A k \in DOMAIN steps[r] : steps[r][k].out = "ok" )
        => /\ Len(Calls(r, "sign")) = 1
           /\ sig[r] # ""
           /\ OwnInserts(r) = 1
           /\ signatures # << >>
           /\ signatures[Len(signatures)].signature = sig[r]
           /\ results[r][idx[r]].status = "success"
           /\ results[r][idx[r]].signature = sig[r]
           /\ LET n == Len(steps[r])
              IN  /\ n >= 4
                  /\ \A k \in 1..(n - 3) : steps[r][k].op = "evaluate"
                  /\ steps[r][n - 2].op = "resolve"
                  /\ steps[r][n - 1].op = "sign"
                  /\ steps[r][n].op = "store"

(***************************************************************************)
(* C7.  getNaniVote: a first response that parses as JSON, whatever value  *)
(* it parses to, is returned as parsed and no further request is made.     *)
(***************************************************************************)
C7_FirstJsonReturned ==
    \A r \in Runs :
        ( /\ idx[r] > 0
          /\ steps[r] = << Step("evaluate", Instruction[1], "ok") >>
          /\ text[r].parses )
        => /\ pc[r] \notin {"oracle", "body"}
           /\ decision[r] = text[r].value

(***************************************************************************)
(* C8.  getNaniVote makes at most three requests, with the instructions in *)
(* the fixed order; a further request follows only a response that did not *)
(* parse; three unparsable responses raise the format error, which the     *)
(* handler turns into the proposal's "error" entry, not a failed batch.    *)
(***************************************************************************)
C8_AtMostThreeEscalating ==
    \A r \in Runs :
        LET asked == Calls(r, "evaluate")
        IN  /\ Len(asked) <= 3
            /\ \A k \in DOMAIN asked : asked[k].arg = Instruction[k]
            /\ pc[r] \in {"oracle", "body"} /\ asked # << >> => ~ text[r].parses
            /\ ( /\ Len(asked) = 3
                 /\ asked[3].out = "ok"
                 /\ ~ Truthy(makeRequest(text[r])) )
               => /\ Finished(r)
                  /\ results[r][idx[r]].status = "error"
                  /\ results[r][idx[r]].error = FormatErrorMessage
                  /\ response[r].status # 500

(***************************************************************************)
(* C9.  getRecentProposals retries a failing query with linearly growing   *)
(* waits; a successful attempt returns at once; the error propagates only  *)
(* when the attempts are used up.                                          *)
(***************************************************************************)
Exhausted(r) ==
    /\ response[r].status = 500
    /\ response[r].details = QueryErrorMessage

\* As claimed: three waits, of 1 s, 2 s and 3 s.
C9_ThreeBackoffWaits ==
    \A r \in Runs : Exhausted(r) => waits[r] = << 1000, 2000, 3000 >>

\* As the code has it: three attempts, so two waits, of 1 s and 2 s, each
\* begun after a failed attempt and over before the next one; the third
\* failure propagates without a wait.
C9_TwoBackoffWaits ==
    \A r \in Runs :
        /\ tries[r] <= 2
        /\ Len(waits[r]) = tries[r] + (IF pc[r] = "backoff" THEN 1 ELSE 0)
        /\ \A k \in DOMAIN waits[r] : waits[r][k] = 1000 * k
        /\ Exhausted(r) => waits[r] = << 1000, 2000 >>
        /\ pc[r] = "account" => response[r].status = 0

\* All three attempts failed.
C9_Witness ==
    /\ Exhausted(1)
    /\ tries[1] = 2
    /\ waits[1] = << 1000, 2000 >>

(***************************************************************************)
(* C10.  A failed batch (the query out of attempts, or no signing account) *)
(* has made no oracle request, no signer call and no insert: the store is  *)
(* as the invocation found it.                                             *)
(***************************************************************************)
C10_BatchFailureHasNoEffects ==
    \A r \in Runs :
        response[r].status = 500 =>
            /\ response[r].details \in {QueryErrorMessage, CredentialErrorMessage}
            /\ idx[r] = 0
            /\ steps[r] = << >>
            /\ results[r] = << >>
            /\ Len(signatures) = baseline[r]

\* The second invocation fetched a proposal, then failed to get the account,
\* with rows of the first invocation in the store.
C10_Witness ==
    /\ response[2].status = 500
    /\ response[2].details = CredentialErrorMessage
    /\ backlog[2] # << >>
    /\ signatures # << >>

(***************************************************************************)
(* C11.  Within one invocation the proposals are processed one after the   *)
(* other in ascending creation-time order: while a call for proposal i+1   *)
(* is awaited, proposals 1..i have each reached their terminal step (their *)
(* result is pushed), the calls logged are those of proposal i+1 alone and *)
(* each of them has returned or thrown; the invocation awaits one call at  *)
(* a time.                                                                 *)
(***************************************************************************)
\* The external call invocation r is awaiting (the oracle request while its
\* fetch or its response.text() is pending).
InFlight(r) ==
    CASE pc[r] = "fetch" -> {"query"}
      [] pc[r] = "account" -> {"account"}
      [] pc[r] = "backoff" -> {"timer"}
      [] pc[r] = "oracle" -> {"evaluate"}
      [] pc[r] = "body" -> {"evaluate"}
      [] pc[r] = "domain" -> {"resolve"}
      [] pc[r] = "sign" -> {"sign"}
      [] pc[r] = "store" -> {"store"}
      [] OTHER -> {}

\* Position of a call in the order the handler makes them for one proposal.
Rank(op) ==
    CASE op = "evaluate" -> 1
      [] op = "resolve" -> 2
      [] op = "sign" -> 3
      [] op = "store" -> 4

C11_SequentialInOrder ==
    \A r \in Runs :
        /\ \A k \in 1..(Len(backlog[r]) - 1) :
             backlog[r][k].created_at <= backlog[r][k + 1].created_at
        /\ Cardinality(InFlight(r)) <= 1
        /\ pc[r] \in {"oracle", "body", "domain", "sign", "store"} =>
             /\ idx[r] \in 1..Len(backlog[r])
             /\ Len(results[r]) = idx[r] - 1
             /\ \A k \in 1..(idx[r] - 1) :
                  results[r][k].hash = backlog[r][k].userOpHash
             /\ \A k \in DOMAIN steps[r] :
                  /\ steps[r][k].out = "ok"
                  /\ \A op \in InFlight(r) : Rank(steps[r][k].op) <= Rank(op)
        /\ \A j, k \in DOMAIN steps[r] :
             j < k => Rank(steps[r][j].op) <= Rank(steps[r][k].op)

\* The oracle is being asked about the second, later, proposal after the
\* first one was stored.
C11_Witness ==
    /\ pc[1] = "oracle"
    /\ idx[1] = 2
    /\ Len(results[1]) = 1
    /\ results[1][1].status = "success"
    /\ backlog[1][1].created_at < backlog[1][2].created_at

(***************************************************************************)
(* C12.  A success response reports one result per fetched proposal, in    *)
(* fetch order, each with a status among success, rejected and error; the  *)
(* total it reports is the number of fetched proposals and the number of   *)
(* results.                                                                *)
(***************************************************************************)
C12_SummaryPerProposal ==
    \A r \in Runs :
        response[r].status = 200 =>
            /\ response[r].processed = Len(backlog[r])
            /\ Len(response[r].results) = Len(backlog[r])
            /\ \A k \in DOMAIN backlog[r] :
                 /\ response[r].results[k].hash = backlog[r][k].userOpHash
                 /\ response[r].results[k].status \in {"success", "rejected", "error"}

\* A summary of two proposals: one rejected, one in error.
C12_Witness ==
    /\ response[1].status = 200
    /\ response[1].processed = 2
    /\ { response[1].results[k].status : k \in 1..2 } = {"rejected", "error"}

(***************************************************************************)
(* C13.  Every proposal an invocation has processed, whatever its status   *)
(* (success, rejected or error), has a row in the store for the signer.    *)
(***************************************************************************)
C13_EveryOutcomeStored ==
    \A r \in Runs :
        Finished(r) => RowsFor(account[r], Current(r).userOpHash) # {}

(***************************************************************************)
(* C14.  An approved proposal whose nonce key is the remote validator's    *)
(* key, once its domain has been read, is signed under the fixed domain    *)
(* RemoteValidator / 1.0.0 / chain id of the proposal's chain / address of *)
(* the remote validator.                                                   *)
(***************************************************************************)
\* The approval branch was taken and getDomain returned.
DomainResolved(r) ==
    /\ Finished(r)
    /\ Approves(Field(decision[r], "vote"))
    /\ Calls(r, "resolve") # << >>
    /\ Calls(r, "resolve")[1].out = "ok"

C14_RemoteValidatorDomainSigned ==
    \A r \in Runs :
        ( DomainResolved(r) /\ Overrides(Current(r).nonce) ) =>
            /\ Calls(r, "sign") # << >>
            /\ signing[r] # NoCall
            /\ signing[r].domain.name = RemoteValidatorDomain(Current(r).chain).name
            /\ signing[r].domain.version = RemoteValidatorDomain(Current(r).chain).version
            /\ signing[r].domain.chainId = RemoteValidatorDomain(Current(r).chain).chainId
            /\ signing[r].domain.verifyingContract =
                 RemoteValidatorDomain(Current(r).chain).verifyingContract

(***************************************************************************)
(* C15.  For an approved proposal whose domain has been read, the signer   *)
(* receives a domain, and that domain differs from the one read from the   *)
(* account contract exactly when the nonce key is the remote validator's:  *)
(* the zero key and every other key leave it as read.                      *)
(***************************************************************************)
C15_OverrideExactlyOnMatch ==
    \A r \in Runs :
        DomainResolved(r) =>
            /\ Calls(r, "sign") # << >>
            /\ signing[r] # NoCall
            /\ (signing[r].domain # ContractDomain(Current(r).sender, Current(r).chain))
                 <=> Overrides(Current(r).nonce)

(***************************************************************************)
(* Vocabulary of the packing properties: a big-endian hexadecimal field    *)
(* read back as a number, and the optional columns of a row.               *)
(***************************************************************************)
DigitValue(c) == CHOOSE d \in 0..15 : HexDigits[d + 1] = c

RECURSIVE FromHex(_)
FromHex(digits) ==
    IF digits = << >> THEN 0
    ELSE 16 * FromHex(SubSeq(digits, 1, Len(digits) - 1)) + DigitValue(digits[Len(digits)])

\* The column holds a value the code takes as present: `x ? ... : "0x"`.
IsSet(x) == Truthy(x)

\* The gas limit a column gives, zero when it is missing.
Given(limit) == IF limit.t = "num" THEN limit.n ELSE 0

\* The data a column gives, empty when it is missing.
GivenData(data) == IF data.t = "hex" THEN Strip(data.h) ELSE << >>

(***************************************************************************)
(* C16.  paymasterAndData is empty exactly when the operation has no       *)
(* paymaster; otherwise it is the paymaster, the 16-byte verification gas  *)
(* limit, the 16-byte post-op gas limit and the paymaster data, in that    *)
(* order, a missing limit being zero and missing data empty.  initCode is  *)
(* empty exactly when the operation has no factory, and is the factory     *)
(* followed by its data otherwise.                                         *)
(***************************************************************************)
C16_PaymasterAndInitCode ==
    \A r \in Runs :
        signing[r] # NoCall =>
            LET p == Current(r)
                m == signing[r].message
                pm == Strip(m.paymasterAndData)
            IN  /\ SubSeq(m.paymasterAndData, 1, 2) = EmptyHex
                /\ (m.paymasterAndData = EmptyHex) <=> ~ IsSet(p.paymaster)
                /\ IsSet(p.paymaster) =>
                     /\ Len(pm) >= 40 + 32 + 32
                     /\ SubSeq(pm, 1, 40) = Strip(p.paymaster.h)
                     /\ FromHex(SubSeq(pm, 41, 72)) = Given(p.paymasterVerificationGasLimit)
                     /\ FromHex(SubSeq(pm, 73, 104)) = Given(p.paymasterPostOpGasLimit)
                     /\ SubSeq(pm, 105, Len(pm)) = GivenData(p.paymasterData)
                /\ SubSeq(m.initCode, 1, 2) = EmptyHex
                /\ (m.initCode = EmptyHex) <=> ~ IsSet(p.factory)
                /\ IsSet(p.factory) =>
                     Strip(m.initCode) = Strip(p.factory.h) \o GivenData(p.factoryData)

\* Signed: an operation with a paymaster, its verification gas limit
\* missing, its post-op gas limit 30000 and no data.
C16_Witness ==
    /\ Calls(1, "sign") # << >>
    /\ Current(1).paymaster = Hex(PAYMASTER_ADDRESS)
    /\ Current(1).paymasterVerificationGasLimit = Null
    /\ Current(1).paymasterPostOpGasLimit = Num(30000)
    /\ Current(1).paymasterData = Null
    /\ Len(signing[1].message.paymasterAndData) = 2 + 40 + 64

(***************************************************************************)
(* C17.  accountGasLimits and gasFees are 32 bytes each: the verification  *)
(* gas limit, then the call gas limit; the priority fee, then the maximum  *)
(* fee; 16 bytes each, big-endian, zero-padded.  The signer's message has  *)
(* them under these names.                                                 *)
(***************************************************************************)
C17_GasFieldsPacked ==
    \A r \in Runs :
        signing[r] # NoCall =>
            LET p == Current(r)
                m == signing[r].message
                a == Strip(m.accountGasLimits)
                g == Strip(m.gasFees)
            IN  /\ SubSeq(m.accountGasLimits, 1, 2) = EmptyHex
                /\ Len(a) = 2 * 32
                /\ FromHex(SubSeq(a, 1, 32)) = p.verificationGasLimit
                /\ FromHex(SubSeq(a, 33, 64)) = p.callGasLimit
                /\ SubSeq(m.gasFees, 1, 2) = EmptyHex
                /\ Len(g) = 2 * 32
                /\ FromHex(SubSeq(g, 1, 32)) = p.maxPriorityFeePerGas
                /\ FromHex(SubSeq(g, 33, 64)) = p.maxFeePerGas
                /\ \A k \in DOMAIN a : a[k] \in { HexDigits[d] : d \in DOMAIN HexDigits }

\* Signed: an operation whose four gas fields all differ in width.
C17_Witness ==
    /\ Calls(1, "sign") # << >>
    /\ Current(1).verificationGasLimit = 2147483647
    /\ Current(1).callGasLimit = 1
    /\ Current(1).maxPriorityFeePerGas = 0
    /\ Current(1).maxFeePerGas = 21000
    /\ signing[1].message.accountGasLimits =
         EmptyHex \o [ i \in 1..24 |-> "0" ] \o << "7","f","f","f","f","f","f","f" >>
                  \o [ i \in 1..31 |-> "0" ] \o << "1" >>

(***************************************************************************)
(* C18.  The signer is invoked only for a decision whose vote is the       *)
(* boolean true; a decision with any other vote (false, missing, a string, *)
(* a number) is stored as rejected with the empty signature.               *)
(***************************************************************************)
C18_SignedOnlyOnBooleanTrue ==
    \A r \in Runs :
        ( /\ idx[r] > 0
          /\ decision[r] # Undefined
          /\ Field(decision[r], "vote") # Bool(TRUE) )
        => /\ pc[r] \notin {"domain", "sign"}
           /\ NotSigned(r)
           /\ sig[r] = ""
           /\ OwnInserts(r) = 1 => results[r][idx[r]].status = "rejected"

(***************************************************************************)
(* C19.  An oracle request that throws is the last call made for its       *)
(* proposal: no further request, no signature, no row; the proposal's      *)
(* entry is "error" with the exception's message, and the invocation still *)
(* processes the remaining proposals and answers 200.                      *)
(***************************************************************************)
C19_TransportErrorNotRetried ==
    \A r \in Runs :
        \A k \in DOMAIN steps[r] :
            ( steps[r][k].op = "evaluate" /\ steps[r][k].out = "throw" ) =>
                /\ k = Len(steps[r])
                /\ Finished(r)
                /\ results[r][idx[r]] =
                     [ hash |-> Current(r).userOpHash, status |-> "error",
                       error |-> FetchErrorMessage ]
                /\ OwnInserts(r) = 0
                /\ Len(signatures) - baseline[r] < idx[r]
                /\ response[r].status # 500
                /\ pc[r] = "done" =>
                     /\ response[r].status = 200
                     /\ idx[r] = Len(backlog[r])
                     /\ Len(response[r].results) = Len(backlog[r])

\* The first proposal was signed and stored; the second request for the
\* second proposal threw, no third one followed, and the invocation
\* answered 200.
C19_Witness ==
    /\ response[1].status = 200
    /\ Len(results[1]) = 2
    /\ results[1][1].status = "success"
    /\ results[1][2].error = FetchErrorMessage
    /\ Len(steps[1]) = 2
    /\ steps[1][2].out = "throw"

(***************************************************************************)
(* C20.  When every awaited call settles, an invocation that has begun     *)
(* ends with one response, 200 or 500, sent on the step that ends it and   *)
(* never changed; it makes at most 3 query attempts and, for each          *)
(* proposal, at most 3 oracle requests, 1 signer call and 1 insert.        *)
(***************************************************************************)
WithinBudget(r) ==
    /\ tries[r] + 1 <= 3
    /\ Len(Calls(r, "evaluate")) <= 3
    /\ Len(Calls(r, "sign")) <= 1
    /\ Len(Calls(r, "store")) <= 1

Answered(r) == pc[r] = "done" /\ response[r].status \in {200, 500}

C20_Termination ==
    /\ [] (\A r \in Runs :
              /\ WithinBudget(r)
              /\ response[r] # NoResponse => Answered(r))
    /\ [][\A r \in Runs :
              /\ (pc[r] # "done" /\ pc'[r] = "done") =>
                     (response[r] = NoResponse /\ response'[r].status \in {200, 500})
              /\ response[r] # NoResponse => response'[r] = response[r]]_vars
    /\ \A r \in Runs : (pc[r] = "fetch") ~> Answered(r)

\* An invocation that answered after two proposals, the last of which took
\* three oracle requests, one signer call and one insert.
C20_Witness ==
    /\ Answered(1)
    /\ response[1].status = 200
    /\ Len(results[1]) = 2
    /\ Len(Calls(1, "evaluate")) = 3
    /\ Len(Calls(1, "sign")) = 1
    /\ OwnInserts(1) = 1

====
